---- MODULE Spec2Model ----
(***************************************************************************)
(* GRPO training of a CartPole policy (grpo_train_cartpole.py).            *)
(*                                                                         *)
(* The model follows the script: the trajectory collector                  *)
(* (collect_trajectory_vectorized), the group-relative advantage           *)
(* (calc_advantages_with_grpo), the clipped update (grpo_update) and the   *)
(* outer training loop with the final save and plot.                       *)
(*                                                                         *)
(* Numbers.  Tensors of reals are modelled exactly: a scalar is a reduced  *)
(* fraction [n |-> numerator, d |-> denominator > 0]; floating-point       *)
(* rounding is not modelled.  The only non-finite value that the modelled  *)
(* code can produce from finite inputs, NaN (torch.std of one element),    *)
(* is modelled explicitly.  Observations are reduced to their component 0  *)
(* (cart position), the only component the script itself reads.            *)
(***************************************************************************)
EXTENDS Integers, Sequences, FiniteSets, TLC

VARIABLES
    pc,              \* position of the script / of the function under study
    envs,            \* the vectorized environment: [num_envs, closed]
    num_steps,       \* collect_trajectory_vectorized: parameter num_steps
    t,               \* collector: number of loop bodies executed so far
    states,          \* collector: current observations, one per environment
    all_states,      \* collector: list of recorded observations, per step
    all_actions,     \* collector: list of sampled actions, per step
    all_log_probs,   \* collector: list of log-probabilities, per step
    all_rewards,     \* collector: accumulated shaped reward per environment
    all_dones,       \* collector: sticky done flag per environment
    done_step,       \* history: step at which all_dones[e] was first set (0: not yet)
    trajectories,    \* result of the collector (batch-major tensors)
    episode_rewards, \* result of the collector (normalized_rewards * num_steps)
    advantages,      \* grpo_update: advantage per episode
    i_iter,          \* grpo_update: inner iterations completed
    loss,            \* grpo_update: loss of the last inner iteration
    policy,          \* policy parameters: the vector reached after `policy` updates
    optimizer,       \* Adam state: number of optimizer.step() calls so far
    i_episode,       \* outer loop variable
    return_list,     \* reward curve
    stdout,          \* console lines printed by the script, by kind
    checkpoints,     \* number of parameter files written by torch.save
    plotted,         \* the curve that plt.plot was given (<<>>: none yet)
    ratio,           \* clipped surrogate, one timestep: probability ratio
    advantage        \* clipped surrogate, one timestep: advantage

vars == <<pc, envs, num_steps, t, states, all_states, all_actions, all_log_probs,
          all_rewards, all_dones, done_step, trajectories, episode_rewards,
          advantages, i_iter, loss, policy, optimizer, i_episode, return_list,
          stdout, checkpoints, plotted, ratio, advantage>>

collectorVars == <<num_steps, t, states, all_states, all_actions, all_log_probs,
                   all_rewards, all_dones, done_step>>

updateVars == <<advantages, i_iter, loss, policy, optimizer>>

mainVars == <<i_episode, return_list, stdout, checkpoints, plotted>>

clipVars == <<ratio, advantage>>

----------------------------------------------------------------------------
(* Bounds and program constants                                            *)

\* number of parallel environments (50 in the script, scaled down)
num_envs == 2

\* step limit of one collection (500 in the script, scaled down)
max_steps == 3

\* bound of the outer loop (100 in the script, scaled down)
episode_num == 3

\* largest batch given to calc_advantages_with_grpo on its own
MaxBatch == 3

\* inner iterations of grpo_update (default of n_iterations)
n_iterations == 20

\* margin of the early stop: avg_reward > max_steps - EarlyStopMargin
EarlyStopMargin == 5

\* CartPole-v1 pays 1 per step
StepReward == 1

\* cart positions the environment may report, in whole units
Positions == {-1, 0}

\* cart positions reported by the environment of the whole-script model
StubPositions == {-1}

\* cart position after reset (CartPole resets to within 0.05 of the centre)
ResetPosition == 0

----------------------------------------------------------------------------
(* Exact scalars                                                           *)

Abs(x) == IF x < 0 THEN -x ELSE x

RECURSIVE GCD(_, _)
GCD(a, b) == IF b = 0 THEN a ELSE GCD(b, a % b)

\* the fraction n/d (d > 0), reduced
Rat(n, d) ==
    LET g == GCD(Abs(n), d)
    IN  [n |-> n \div g, d |-> d \div g]

RatInt(k) == [n |-> k, d |-> 1]

RatAdd(p, q) == Rat(p.n * q.d + q.n * p.d, p.d * q.d)

RatNeg(p) == [n |-> -p.n, d |-> p.d]

RatSub(p, q) == RatAdd(p, RatNeg(q))

RatMul(p, q) == Rat(p.n * q.n, p.d * q.d)

\* p / k for an integer k > 0
RatDivInt(p, k) == Rat(p.n, p.d * k)

RatLess(p, q) == p.n * q.d < q.n * p.d

RatMin(p, q) == IF RatLess(q, p) THEN q ELSE p

RECURSIVE SumRat(_, _)
\* sum of f[1] .. f[k]
SumRat(f, k) == IF k = 0 THEN RatInt(0) ELSE RatAdd(SumRat(f, k - 1), f[k])

RECURSIVE SumSeqAbs(_, _, _)
\* sum of |s[j][e]| for j in 2 .. k
SumSeqAbs(s, e, k) == IF k < 2 THEN 0 ELSE SumSeqAbs(s, e, k - 1) + Abs(s[k][e])

----------------------------------------------------------------------------
(* collect_trajectory_vectorized                                           *)

Envs == 1 .. envs.num_envs

\* dist.sample(): the action drawn for environment e at step k under the
\* parameters p, kept symbolic (the script never inspects an action: it hands
\* it to envs.step, whose answers are arbitrary here, and stores it)
Sample(p, k, e) == [sampled_under |-> p, step |-> k, env |-> e]

\* dist.log_prob(actions): the log-probability of action a in state s under the
\* parameters p, kept symbolic
LogProb(p, s, a) == <<p, s, a>>

\* all_dones[dones] = True
StickyDones(flags, dones) == [e \in DOMAIN flags |-> flags[e] \/ dones[e]]

\* rewards[all_dones] = 0
ZeroDone(rewards, flags) == [e \in DOMAIN rewards |-> IF flags[e] THEN 0 ELSE rewards[e]]

\* rewards += -abs(next_states[:, 0])
ShapeRewards(rewards, next_states) ==
    [e \in DOMAIN rewards |-> rewards[e] - Abs(next_states[e])]

\* variant: the rewards are zeroed with the flags of the step before
\* (lines 55 and 56 exchanged)
StepRewardsSwapped(flags, dones, rewards, next_states) ==
    [all_dones |-> StickyDones(flags, dones),
     rewards   |-> ShapeRewards(ZeroDone(rewards, flags), next_states)]

\* variant: the rewards are zeroed after the penalty is added
\* (lines 56 and 57 exchanged)
StepRewardsZeroLast(flags, dones, rewards, next_states) ==
    [all_dones |-> StickyDones(flags, dones),
     rewards   |-> ZeroDone(ShapeRewards(rewards, next_states),
                            StickyDones(flags, dones))]

\* lines 55-57: the flags, and the reward each environment adds to its total
StepRewards(flags, dones, rewards, next_states) ==
    [all_dones |-> StickyDones(flags, dones),
     rewards   |-> ShapeRewards(ZeroDone(rewards, StickyDones(flags, dones)),
                                next_states)]

\* variant: torch.any in place of torch.all
AnyDone(flags) == \E e \in DOMAIN flags : flags[e]

\* torch.all(all_dones)
AllDone(flags) == \A e \in DOMAIN flags : flags[e]

\* tensor.permute(1, 0, ...): step-major list to episode-major
Permute(list, n) == [e \in 1 .. n |-> [j \in 1 .. Len(list) |-> list[j][e]]]

\* variant: division by the number of collected steps
NormalizeByLength(totals, limit, collected) ==
    [e \in DOMAIN totals |-> Rat(totals[e], collected)]

\* all_rewards / num_steps
Normalize(totals, limit, collected) ==
    [e \in DOMAIN totals |-> Rat(totals[e], limit)]

\* normalized_rewards * num_steps
Denormalize(normalized, limit) ==
    [e \in DOMAIN normalized |-> RatMul(normalized[e], RatInt(limit))]

\* lines 34-41: reset the environments and the accumulators
CollectReset ==
    /\ pc = "collect"
    /\ states' = [e \in Envs |-> ResetPosition]
    /\ all_states' = <<>>
    /\ all_actions' = <<>>
    /\ all_log_probs' = <<>>
    /\ all_rewards' = [e \in Envs |-> 0]
    /\ all_dones' = [e \in Envs |-> FALSE]
    /\ done_step' = [e \in Envs |-> 0]
    /\ t' = 0
    /\ pc' = IF num_steps > 0 THEN "collect_loop" ELSE "collect_return"
    /\ UNCHANGED <<envs, num_steps, trajectories, episode_rewards>>
    /\ UNCHANGED <<updateVars, mainVars, clipVars>>

\* lines 42-63: one body of the collection loop; the environment reports
\* positions from P
CollectStep(P) ==
    /\ pc = "collect_loop"
    /\ \E next_states \in [Envs -> P], dones \in [Envs -> BOOLEAN] :
          LET actions   == [e \in Envs |-> Sample(policy, t, e)]
              log_probs == [e \in Envs |-> LogProb(policy, states[e], actions[e])]
              rewards   == [e \in Envs |-> StepReward]
              r         == StepRewards(all_dones, dones, rewards, next_states)
          IN  /\ all_states' = Append(all_states, states)
              /\ all_actions' = Append(all_actions, actions)
              /\ all_log_probs' = Append(all_log_probs, log_probs)
              /\ all_dones' = r.all_dones
              /\ all_rewards' = [e \in Envs |-> all_rewards[e] + r.rewards[e]]
              /\ done_step' = [e \in Envs |->
                                  IF ~all_dones[e] /\ r.all_dones[e]
                                  THEN t + 1 ELSE done_step[e]]
              /\ states' = next_states
              /\ t' = t + 1
              /\ pc' = IF AllDone(r.all_dones) \/ t + 1 >= num_steps
                       THEN "collect_return" ELSE "collect_loop"
    /\ UNCHANGED <<envs, num_steps, trajectories, episode_rewards>>
    /\ UNCHANGED <<updateVars, mainVars, clipVars>>

\* lines 64-71: normalise, stack and return
CollectReturn ==
    /\ pc = "collect_return"
    /\ LET normalized_rewards == Normalize(all_rewards, num_steps, Len(all_states))
       IN  /\ trajectories' =
                  [all_states         |-> Permute(all_states, envs.num_envs),
                   all_log_probs      |-> Permute(all_log_probs, envs.num_envs),
                   all_actions        |-> Permute(all_actions, envs.num_envs),
                   normalized_rewards |-> normalized_rewards]
           /\ episode_rewards' = Denormalize(normalized_rewards, num_steps)
    /\ pc' = "update"
    /\ UNCHANGED <<envs, collectorVars, updateVars, mainVars, clipVars>>

NoTrajectories ==
    [all_states |-> <<>>, all_log_probs |-> <<>>, all_actions |-> <<>>,
     normalized_rewards |-> <<>>]

\* the state outside the part under study
Idle ==
    /\ t = 0
    /\ states = <<>>
    /\ all_states = <<>>
    /\ all_actions = <<>>
    /\ all_log_probs = <<>>
    /\ all_rewards = <<>>
    /\ all_dones = <<>>
    /\ done_step = <<>>
    /\ trajectories = NoTrajectories
    /\ episode_rewards = <<>>
    /\ advantages = <<>>
    /\ i_iter = 0
    /\ loss = "none"
    /\ policy = 0
    /\ optimizer = 0
    /\ i_episode = 0
    /\ return_list = <<>>
    /\ stdout = <<>>
    /\ checkpoints = 0
    /\ plotted = <<>>
    /\ ratio = RatInt(1)
    /\ advantage = RatInt(0)

\* the collector on its own: any batch size and step limit within the bounds
InitCollect ==
    /\ pc = "collect"
    /\ envs \in [num_envs : 1 .. num_envs, closed : {FALSE}]
    /\ num_steps \in 1 .. max_steps
    /\ Idle

NextCollect ==
    \/ CollectReset
    \/ CollectStep(Positions)
    \/ CollectReturn

SpecCollect == InitCollect /\ [][NextCollect]_vars

----------------------------------------------------------------------------
(* calc_advantages_with_grpo                                               *)

\* a float that may be NaN: x / k, where 0 / 0 is NaN
FloatDivInt(x, k) ==
    IF k = 0
    THEN [nan |-> TRUE, v |-> RatInt(0)]
    ELSE [nan |-> FALSE, v |-> RatDivInt(x, k)]

\* torch.mean(rewards)
Mean(rewards) == RatDivInt(SumRat(rewards, Len(rewards)), Len(rewards))

\* the squared deviations from the mean
SquaredDeviations(rewards) ==
    [e \in DOMAIN rewards |->
        RatMul(RatSub(rewards[e], Mean(rewards)), RatSub(rewards[e], Mean(rewards)))]

\* torch.std(rewards) ** 2: the sum of squared deviations over len - 1
\* (Bessel's correction, the default of torch.std); NaN for one element
Variance(rewards) ==
    FloatDivInt(SumRat(SquaredDeviations(rewards), Len(rewards)), Len(rewards) - 1)

\* (rewards - mean) / (std + 1e-8), one element: the quotient is kept as the
\* pair of its numerator dev and the variance var its denominator
\* sqrt(var) + 1e-8 is made of; it is 0 exactly when dev is 0, and NaN when the
\* standard deviation is
Standardize(dev, variance) ==
    IF variance.nan
    THEN [nan |-> TRUE, dev |-> RatInt(0), var |-> RatInt(0)]
    ELSE [nan |-> FALSE, dev |-> dev, var |-> variance.v]

calc_advantages_with_grpo(traj) ==
    LET rewards     == traj.normalized_rewards
        mean_reward == Mean(rewards)
        variance    == Variance(rewards)
    IN  [e \in DOMAIN rewards |-> Standardize(RatSub(rewards[e], mean_reward), variance)]

\* the normalized rewards given to the advantage function on its own
RewardValues == {Rat(x, max_steps) : x \in (-max_steps) .. max_steps}

CalcAdvantages ==
    /\ pc = "advantages"
    /\ advantages' = calc_advantages_with_grpo(trajectories)
    /\ pc' = "advantages_done"
    /\ UNCHANGED <<envs, collectorVars, trajectories, episode_rewards>>
    /\ UNCHANGED <<i_iter, loss, policy, optimizer, mainVars, clipVars>>

InitAdv ==
    /\ pc = "advantages"
    /\ envs = [num_envs |-> 0, closed |-> FALSE]
    /\ num_steps = max_steps
    /\ t = 0
    /\ states = <<>>
    /\ all_states = <<>>
    /\ all_actions = <<>>
    /\ all_log_probs = <<>>
    /\ all_rewards = <<>>
    /\ all_dones = <<>>
    /\ done_step = <<>>
    /\ \E n \in 1 .. MaxBatch : \E r \in [1 .. n -> RewardValues] :
          trajectories = [NoTrajectories EXCEPT !.normalized_rewards = r]
    /\ episode_rewards = <<>>
    /\ advantages = <<>>
    /\ i_iter = 0
    /\ loss = "none"
    /\ policy = 0
    /\ optimizer = 0
    /\ i_episode = 0
    /\ return_list = <<>>
    /\ stdout = <<>>
    /\ checkpoints = 0
    /\ plotted = <<>>
    /\ ratio = RatInt(1)
    /\ advantage = RatInt(0)

NextAdv == CalcAdvantages

SpecAdv == InitAdv /\ [][NextAdv]_vars

----------------------------------------------------------------------------
(* grpo_update: the clipped surrogate of one timestep                      *)

\* eps = 0.2
eps == Rat(1, 5)

\* torch.clamp(x, lo, hi)
Clamp(x, lo, hi) == IF RatLess(x, lo) THEN lo ELSE IF RatLess(hi, x) THEN hi ELSE x

\* variant: the unclipped surrogate alone
UnclippedLoss(r, a, tolerance) == RatNeg(RatMul(r, a))

\* lines 119-122: -torch.min(surr1, surr2) for one timestep
ClippedLoss(r, a, tolerance) ==
    LET surr1 == RatMul(r, a)
        surr2 == RatMul(Clamp(r, RatSub(RatInt(1), tolerance),
                                 RatAdd(RatInt(1), tolerance)), a)
    IN  RatNeg(RatMin(surr1, surr2))

\* ratios are drawn in tenths up to MaxRatioTenths / 10
MaxRatioTenths == 20

\* advantages are drawn in halves between -MaxAdvHalves / 2 and MaxAdvHalves / 2
MaxAdvHalves == 4

Ratios == {Rat(k, 10) : k \in 1 .. MaxRatioTenths}

AdvantageValues == {Rat(a, 2) : a \in (-MaxAdvHalves) .. MaxAdvHalves}

SurrogateStep ==
    /\ pc = "surrogate"
    /\ loss' = ClippedLoss(ratio, advantage, eps)
    /\ pc' = "surrogate_done"
    /\ UNCHANGED <<envs, collectorVars, trajectories, episode_rewards>>
    /\ UNCHANGED <<advantages, i_iter, policy, optimizer, mainVars, clipVars>>

InitClip ==
    /\ pc = "surrogate"
    /\ envs = [num_envs |-> 0, closed |-> FALSE]
    /\ num_steps = max_steps
    /\ t = 0
    /\ states = <<>>
    /\ all_states = <<>>
    /\ all_actions = <<>>
    /\ all_log_probs = <<>>
    /\ all_rewards = <<>>
    /\ all_dones = <<>>
    /\ done_step = <<>>
    /\ trajectories = NoTrajectories
    /\ episode_rewards = <<>>
    /\ advantages = <<>>
    /\ i_iter = 0
    /\ loss = RatInt(0)
    /\ policy = 0
    /\ optimizer = 0
    /\ i_episode = 0
    /\ return_list = <<>>
    /\ stdout = <<>>
    /\ checkpoints = 0
    /\ plotted = <<>>
    /\ ratio \in Ratios
    /\ advantage \in AdvantageValues

NextClip == SurrogateStep

SpecClip == InitClip /\ [][NextClip]_vars

----------------------------------------------------------------------------
(* grpo_update                                                             *)

\* line 85, 87-90: the advantages are computed once, before the inner loop
UpdateStart ==
    /\ pc = "update"
    /\ advantages' = calc_advantages_with_grpo(trajectories)
    /\ i_iter' = 0
    /\ pc' = "update_loop"
    /\ UNCHANGED <<envs, collectorVars, trajectories, episode_rewards>>
    /\ UNCHANGED <<loss, policy, optimizer, mainVars, clipVars>>

\* variant: the old log-probabilities are taken from the current parameters
FreshLogProbsLoss(net, traj, adv) ==
    [net       |-> net,
     log_probs |-> [e \in DOMAIN traj.all_states |->
                      [j \in DOMAIN traj.all_states[e] |->
                          LogProb(net, traj.all_states[e][j], traj.all_actions[e][j])]],
     advantages |-> adv]

\* lines 111-126: the loss of one inner iteration, kept as what it is computed
\* from: the parameters of net, the stored log-probabilities and the advantages
SurrogateLoss(net, traj, adv) ==
    [net |-> net, log_probs |-> traj.all_log_probs, advantages |-> adv]

\* line 92: range(n_iterations) is exhausted after i inner iterations
InnerLoopDone(i) == i >= n_iterations

\* lines 92-133: one inner iteration: the loss, then one optimizer step; after
\* the last one grpo_update returns and its locals are gone
UpdateIter ==
    /\ pc = "update_loop"
    /\ loss' = SurrogateLoss(policy, trajectories, advantages)
    /\ policy' = policy + 1
    /\ optimizer' = optimizer + 1
    /\ IF InnerLoopDone(i_iter + 1)
       THEN /\ pc' = "log"
            /\ i_iter' = 0
            /\ advantages' = <<>>
       ELSE /\ pc' = "update_loop"
            /\ i_iter' = i_iter + 1
            /\ UNCHANGED advantages
    /\ UNCHANGED <<envs, collectorVars, trajectories, episode_rewards>>
    /\ UNCHANGED <<mainVars, clipVars>>

----------------------------------------------------------------------------
(* The outer training loop, the save and the plot                          *)

\* variant: >= in place of >
EarlyStopAtLeast(avg_reward) ==
    ~RatLess(avg_reward, RatInt(max_steps - EarlyStopMargin))

\* line 169: avg_reward > max_steps - 5
EarlyStop(avg_reward) == RatLess(RatInt(max_steps - EarlyStopMargin), avg_reward)

\* variant: the stopping iteration is not recorded
RecordReturnUnlessStopping(curve, avg_reward) ==
    IF RatLess(RatInt(max_steps - EarlyStopMargin), avg_reward)
    THEN curve
    ELSE Append(curve, avg_reward)

\* line 162: return_list.append(avg_reward)
RecordReturn(curve, avg_reward) == Append(curve, avg_reward)

\* lines 161-171: mean reward, reward curve, progress line, early stop.
\* When the loop goes round, the batch and the loss of this iteration are dead
\* (lines 155 and 158 rebind them before anything reads them) and are dropped.
LogAndCheck ==
    /\ pc = "log"
    /\ LET avg_reward == RatDivInt(SumRat(episode_rewards, Len(episode_rewards)),
                                   Len(episode_rewards))
       IN  /\ return_list' = RecordReturn(return_list, avg_reward)
           /\ IF EarlyStop(avg_reward)
              THEN /\ stdout' = stdout \o <<"avg reward", "finished">>
                   /\ pc' = "save"
                   /\ UNCHANGED <<i_episode, trajectories, episode_rewards, loss>>
              ELSE /\ stdout' = Append(stdout, "avg reward")
                   /\ IF i_episode + 1 < episode_num
                      THEN /\ i_episode' = i_episode + 1
                           /\ pc' = "collect"
                           /\ trajectories' = NoTrajectories
                           /\ episode_rewards' = <<>>
                           /\ loss' = "none"
                      ELSE /\ pc' = "save"
                           /\ UNCHANGED <<i_episode, trajectories, episode_rewards, loss>>
    /\ UNCHANGED <<envs, collectorVars>>
    /\ UNCHANGED <<advantages, i_iter, policy, optimizer>>
    /\ UNCHANGED <<checkpoints, plotted, clipVars>>

\* variant: a failed save is swallowed and the script goes on
SaveSwallowingFailure(dir_exists) ==
    [written |-> IF dir_exists THEN 1 ELSE 0, next |-> "print_saved"]

\* line 175: torch.save into ./weights writes the file, or raises when the
\* directory is missing
SaveOutcome(dir_exists) ==
    IF dir_exists
    THEN [written |-> 1, next |-> "print_saved"]
    ELSE [written |-> 0, next |-> "crashed"]

\* lines 172-175: elapsed time, then the checkpoint; ./weights exists or not
Save ==
    /\ pc = "save"
    /\ stdout' = Append(stdout, "used_time")
    /\ \E dir_exists \in BOOLEAN :
          /\ checkpoints' = checkpoints + SaveOutcome(dir_exists).written
          /\ pc' = SaveOutcome(dir_exists).next
    /\ UNCHANGED <<envs, collectorVars, trajectories, episode_rewards>>
    /\ UNCHANGED <<updateVars, i_episode, return_list, plotted, clipVars>>

\* line 176
PrintSaved ==
    /\ pc = "print_saved"
    /\ stdout' = Append(stdout, "Model saved")
    /\ pc' = "plot"
    /\ UNCHANGED <<envs, collectorVars, trajectories, episode_rewards>>
    /\ UNCHANGED <<updateVars, i_episode, return_list, checkpoints, plotted, clipVars>>

\* lines 178-184
Plot ==
    /\ pc = "plot"
    /\ LET episodes_list == [k \in 1 .. Len(return_list) |-> k - 1]
       IN  plotted' = <<[x |-> episodes_list, y |-> return_list]>>
    /\ pc' = "close"
    /\ UNCHANGED <<envs, collectorVars, trajectories, episode_rewards>>
    /\ UNCHANGED <<updateVars, i_episode, return_list, stdout, checkpoints, clipVars>>

\* line 185
Close ==
    /\ pc = "close"
    /\ envs' = [envs EXCEPT !.closed = TRUE]
    /\ pc' = "done"
    /\ UNCHANGED <<collectorVars, trajectories, episode_rewards>>
    /\ UNCHANGED <<updateVars, mainVars, clipVars>>

\* lines 136-151: the script up to its loop
Init ==
    /\ pc = "collect"
    /\ envs = [num_envs |-> num_envs, closed |-> FALSE]
    /\ num_steps = max_steps
    /\ Idle

Next ==
    \/ CollectReset
    \/ CollectStep(StubPositions)
    \/ CollectReturn
    \/ UpdateStart
    \/ UpdateIter
    \/ LogAndCheck
    \/ Save
    \/ PrintSaved
    \/ Plot
    \/ Close

Spec == Init /\ [][Next]_vars

----------------------------------------------------------------------------
(* Properties                                                              *)

InLoop == {"collect", "collect_loop", "collect_return", "update", "update_loop", "log"}

PostLoop == {"save", "print_saved", "plot", "close", "done", "crashed"}

\* the early-stop threshold max_steps - 5
Threshold == max_steps - EarlyStopMargin

Exceeds(avg) == avg.n > Threshold * avg.d

Count(seq, x) == Cardinality({k \in 1 .. Len(seq) : seq[k] = x})

\* C1: when the outer loop has exited, return_list has one entry per outer
\* iteration executed (i_episode + 1 of them, the stopping one included), between
\* 1 and episode_num entries, and the plotted x axis has the same length; inside
\* the loop it has one entry per completed iteration.
C1_CurveLength ==
    /\ pc \in InLoop => Len(return_list) = i_episode
    /\ pc \in PostLoop =>
          /\ Len(return_list) = i_episode + 1
          /\ 1 <= Len(return_list)
          /\ Len(return_list) <= episode_num
    /\ pc \in {"close", "done"} =>
          /\ Len(plotted[1].x) = Len(return_list)
          /\ plotted[1].y = return_list

\* C1 witness: the loop stopped early in its second iteration and the script
\* ran to its end with a curve of two points.
C1_Witness ==
    /\ pc = "done"
    /\ i_episode = 1
    /\ Len(return_list) = 2
    /\ Exceeds(return_list[2])
    /\ Len(plotted[1].x) = 2

\* position of pc inside one outer iteration
Stage ==
    CASE pc = "collect"        -> 0
      [] pc = "collect_loop"   -> 1 + t
      [] pc = "collect_return" -> num_steps + 2
      [] pc = "update"         -> num_steps + 3
      [] pc = "update_loop"    -> num_steps + 4 + i_iter
      [] pc = "log"            -> num_steps + 4 + n_iterations
      [] OTHER                 -> 0

\* a bound on the steps the loop can still take
Remaining ==
    IF pc \in InLoop
    THEN (episode_num - i_episode) * (max_steps + n_iterations + 5) - Stage
    ELSE 0

C2_Inv ==
    /\ Remaining >= 0
    /\ pc \in InLoop =>
          /\ i_episode < episode_num
          /\ \A k \in 1 .. Len(return_list) : ~Exceeds(return_list[k])
    /\ pc \in PostLoop =>
          /\ \A k \in 1 .. (Len(return_list) - 1) : ~Exceeds(return_list[k])
          /\ Exceeds(return_list[Len(return_list)]) \/ Len(return_list) = episode_num

C2_Step ==
    /\ pc \in InLoop => Remaining' < Remaining
    /\ pc = "log" =>
          LET avg == return_list'[Len(return_list')]
          IN  /\ pc' \in {"save", "collect"}
              /\ pc' = "save" <=> (Exceeds(avg) \/ i_episode + 1 = episode_num)
              /\ pc' = "collect" => i_episode' = i_episode + 1

Printed == Count(stdout, "Model saved") > 0

C3_Inv ==
    /\ checkpoints <= 1
    /\ Count(stdout, "Model saved") <= 1
    /\ pc \in InLoop \cup {"save"} => checkpoints = 0 /\ ~Printed /\ plotted = <<>>
    /\ pc = "print_saved" => checkpoints = 1 /\ ~Printed /\ plotted = <<>>
    /\ pc = "plot" => checkpoints = 1 /\ Printed /\ plotted = <<>>
    /\ pc \in {"close", "done"} =>
          checkpoints = 1 /\ Printed /\ plotted = <<[x |-> plotted[1].x, y |-> return_list]>>
    /\ pc = "crashed" => checkpoints = 0 /\ ~Printed /\ plotted = <<>>

C3_Step ==
    /\ pc # "crashed"
    /\ checkpoints' # checkpoints => pc = "save" /\ pc' = "print_saved"
    /\ pc = "save" => pc' \in {"print_saved", "crashed"}
    /\ pc = "print_saved" => pc' = "plot" /\ Count(stdout', "Model saved") = 1
    /\ pc = "plot" => pc' = "close" /\ plotted' # <<>>

\* C3: the parameters are saved once, after the loop and never inside it; then
\* the confirmation is printed, then the reward curve is rendered; a failed save
\* ends the script there, with neither the confirmation nor the curve.
C3_SaveThenPrintThenPlot ==
    /\ []C3_Inv
    /\ [][C3_Step]_vars

\* C3 witness: the loop ran out of iterations, the save failed and the script
\* ended there.
C3_Witness ==
    /\ pc = "crashed"
    /\ Len(return_list) = episode_num
    /\ stdout[Len(stdout)] = "used_time"

C9_Inv ==
    /\ pc \in {"collect", "collect_loop", "collect_return", "update"} =>
          /\ optimizer = n_iterations * i_episode
          /\ policy = n_iterations * i_episode
    /\ pc = "update_loop" =>
          /\ optimizer = n_iterations * i_episode + i_iter
          /\ i_iter < n_iterations
          /\ \A e \in Envs : \A j \in 1 .. Len(trajectories.all_log_probs[e]) :
                trajectories.all_log_probs[e][j][1] = n_iterations * i_episode
          /\ i_iter > 0 =>
                /\ loss.log_probs = trajectories.all_log_probs
                /\ loss.advantages = advantages
                /\ loss.net = policy - 1
    /\ pc = "log" => optimizer = n_iterations * (i_episode + 1)
    /\ pc \in PostLoop => optimizer = n_iterations * Len(return_list)

C9_Step ==
    /\ policy' # policy => pc = "update_loop" /\ optimizer' = optimizer + 1
    /\ optimizer' # optimizer => pc = "update_loop" /\ policy' # policy
    /\ pc = "update_loop" =>
          /\ trajectories' = trajectories
          /\ pc' = "update_loop" => advantages' = advantages

\* C9: the parameters change only in the optimizer steps of grpo_update; every
\* outer iteration makes n_iterations (20) optimizer steps before its early-stop
\* check, each on the stored log-probabilities of the batch and on the one
\* advantage vector computed for it; at loop exit the number of optimizer steps
\* is 20 times the length of the reward curve.
C9_ParametersOnlyInUpdate ==
    /\ []C9_Inv
    /\ [][C9_Step]_vars

\* C9 witness: the loop stopped early in its second iteration, after 40
\* optimizer steps.
C9_Witness ==
    /\ pc = "save"
    /\ Len(return_list) = 2
    /\ optimizer = 2 * n_iterations
    /\ policy = optimizer

\* C5: the collector stops right after the first step at which every sticky
\* done flag is set, or after num_steps steps; the number L of collected steps
\* satisfies 1 <= L <= num_steps, and the state, action and log-probability
\* sequences of each of the N episodes all have length L.
C5_EqualLengths ==
    LET L == Len(all_states)
    IN  /\ pc \in {"collect_loop", "collect_return", "update"} =>
              /\ t = L
              /\ Len(all_actions) = L
              /\ Len(all_log_probs) = L
              /\ L <= num_steps
        /\ pc = "collect_loop" =>
              /\ L < num_steps
              /\ L > 0 => \E e \in Envs : ~all_dones[e]
        /\ pc \in {"collect_return", "update"} =>
              /\ 1 <= L
              /\ L < num_steps => \A e \in Envs : all_dones[e]
              /\ (\A e \in Envs : all_dones[e]) => \E e \in Envs : done_step[e] = L
        /\ pc = "update" =>
              /\ DOMAIN trajectories.all_states = Envs
              /\ DOMAIN trajectories.all_actions = Envs
              /\ DOMAIN trajectories.all_log_probs = Envs
              /\ \A e \in Envs :
                    /\ Len(trajectories.all_states[e]) = L
                    /\ Len(trajectories.all_actions[e]) = L
                    /\ Len(trajectories.all_log_probs[e]) = L

\* C5 witness: of two environments the first terminated at step 1 and the
\* second at step 2 of at most 3; both episodes have two entries.
C5_Witness ==
    /\ pc = "update"
    /\ envs.num_envs = 2
    /\ num_steps = 3
    /\ done_step = <<1, 2>>
    /\ Len(trajectories.all_states[1]) = 2
    /\ Len(trajectories.all_actions[2]) = 2

C7_StickyDone ==
    [][pc = "collect_loop" =>
          \A e \in Envs :
             /\ all_dones[e] => all_dones'[e]
             /\ all_dones'[e] =>
                   /\ all_rewards'[e] = all_rewards[e] - Abs(states'[e])
                   /\ all_rewards'[e] <= all_rewards[e]]_vars

\* C7 witness: an environment that terminated at step 1 has paid the penalty of
\* three steps.
C7_Witness ==
    /\ pc = "collect_return"
    /\ t = 3
    /\ \E e \in Envs : done_step[e] = 1 /\ all_dones[e] /\ all_rewards[e] = -3

\* C10: the step on which an environment first reports done is zeroed too: its
\* total is the raw reward of the steps before that one (of all collected steps
\* if it never reported done) minus the penalties of all collected steps, and is
\* at most the number of collected steps on which its flag was still unset.
C10_DoneStepDiscarded ==
    pc \in {"collect_loop", "collect_return", "update"} /\ t >= 1 =>
       \A e \in Envs :
          LET unset     == IF done_step[e] = 0 THEN t ELSE done_step[e] - 1
              penalties == SumSeqAbs(all_states, e, Len(all_states)) + Abs(states[e])
          IN  /\ all_dones[e] <=> done_step[e] # 0
              /\ all_rewards[e] = unset * StepReward - penalties
              /\ all_rewards[e] <= unset

\* C10 witness: an environment that first reported done at step 2 of 3, with no
\* penalty, holds the reward of one step.
C10_Witness ==
    /\ pc = "update"
    /\ t = 3
    /\ \E e \in Envs :
          /\ done_step[e] = 2
          /\ all_rewards[e] = 1
          /\ states[e] = 0
          /\ \A j \in 1 .. 3 : all_states[j][e] = 0

\* C4: when all episodes of a batch have the same normalized reward, every
\* advantage is exactly 0, also for a batch of one episode.
C4_EqualRewardsZeroAdvantage ==
    pc = "advantages_done" =>
       LET r == trajectories.normalized_rewards
       IN  (\A e \in DOMAIN r : r[e] = r[1]) =>
              \A e \in DOMAIN r : ~advantages[e].nan /\ advantages[e].dev.n = 0

\* C8: one timestep of the clipped surrogate with tolerance eps = 1/5: for a
\* positive advantage and a ratio above 1 + eps the loss is -(1 + eps) * advantage,
\* for a negative advantage and a ratio below 1 - eps it is -(1 - eps) * advantage,
\* whatever the ratio beyond the boundary.
C8_ClipSaturates ==
    pc = "surrogate_done" =>
       /\ advantage.n > 0 /\ ratio.n * 5 > 6 * ratio.d =>
             loss.n * 5 * advantage.d = -6 * advantage.n * loss.d
       /\ advantage.n < 0 /\ ratio.n * 5 < 4 * ratio.d =>
             loss.n * 5 * advantage.d = -4 * advantage.n * loss.d

\* C8 witness: ratio 2 and advantage 3/2 give the loss -9/5, the loss of ratio 6/5.
C8_Witness ==
    /\ pc = "surrogate_done"
    /\ ratio = [n |-> 2, d |-> 1]
    /\ advantage = [n |-> 3, d |-> 2]
    /\ loss = [n |-> -9, d |-> 5]

====
